---- MODULE Spec2Model ----
(***************************************************************************)
(* Model of Render/renderers/Ospray.py (FreeCAD Render workbench, OSPRay   *)
(* Studio back-end).                                                       *)
(*                                                                         *)
(* Two specifications share the module:                                    *)
(*   Spec     one call of render(): the scene file is loaded, the two      *)
(*            post-processing passes run, the file is rewritten, the stale *)
(*            output is removed and the command line is built;             *)
(*   SpecMat  calls of the material dispatcher and of the per-property     *)
(*            helpers (_write_material, _write_value, _write_texref,       *)
(*            _write_texture).                                             *)
(*                                                                         *)
(* Conventions.  A Python string built by concatenation is a sequence of   *)
(* pieces in concatenation order (white space is not modelled); the empty  *)
(* string is the empty sequence.  A Python value that can be None is the   *)
(* record None or a record of another shape.  Real numbers are fixed-point *)
(* integers in units of 1/Unit.                                            *)
(***************************************************************************)
EXTENDS Integers, Sequences, FiniteSets, Bags, TLC

VARIABLES
    \* ---- render() ----
    pc,           \* position in render(): start, loaded, kept, merged,
                  \* written, removed, done
    arg,          \* the arguments of the call
    file,         \* content of input_file on disk (the scene graph as json)
    scene_graph,  \* the in-memory scene graph (local of render), or None
    existing,     \* the files present in the user cache directory
    console,      \* what was printed on App.Console, in order
    ret,          \* the returned pair, or None while running
    orig,         \* the scene graph on disk and the files of the cache
                  \* directory as they were when render was called
    \* ---- material helpers ----
    call,         \* the last helper call: function name and arguments
    result,       \* its outcome: a returned value or a raised exception
    \* ---- write functions ----
    mesh,         \* the mesh object handed to write_mesh, and what the calls
                  \* made on it emitted
    objdir        \* the object directory: the files written, and how far
                  \* each scene object's write call has come

vars == <<pc, arg, file, scene_graph, existing, console, ret, orig,
          call, result, mesh, objdir>>

\* what a call of a material helper leaves alone
helperFrame == <<arg, file, scene_graph, existing, ret, orig, mesh, objdir>>

\* Python's None, and a value that is not None
None == [none |-> TRUE]
Some(x) == [some |-> x]

(***************************************************************************)
(* Bounds                                                                  *)
(***************************************************************************)
MaxChildren == 3     \* longest list of world children in the scene file

(***************************************************************************)
(* Scene graph nodes (json objects).  Equality of nodes is equality of     *)
(* values, as for the dicts json.load returns.                             *)
(***************************************************************************)
Node(n, t, c, ch) == [name |-> n, type |-> t, cam |-> c, children |-> ch]

\* nodes as write_camera, write_mesh and the light writers emit them
CamA == Node("camA", "IMPORTER", TRUE, << >>)
CamB == Node("camB", "IMPORTER", TRUE, << >>)
MeshX == Node("X", "IMPORTER", FALSE, << >>)
MeshY == Node("Y", "IMPORTER", FALSE, << >>)
LightsP == Node("lights", "LIGHTS", FALSE, <<"p">>)
LightsQ == Node("lights", "LIGHTS", FALSE, <<"q", "r">>)

Nodes == {CamA, CamB, MeshX, MeshY, LightsP, LightsQ}

SeqsUpTo(S, n) == UNION {[1..k -> S] : k \in 0..n}

IsCamera(c) == c.cam
IsLights(c) == c.type = "LIGHTS"
NotLights(c) == ~IsLights(c)

RECURSIVE Reversed(_)
Reversed(s) == IF s = << >> THEN << >>
               ELSE Append(Reversed(Tail(s)), Head(s))

\* index of the first element of s equal to x, 0 when there is none
RECURSIVE IndexFrom(_, _, _)
IndexFrom(s, x, i) ==
    IF i > Len(s) THEN 0
    ELSE IF s[i] = x THEN i ELSE IndexFrom(s, x, i + 1)

\* list.remove(x): the first element equal to x is removed
ListRemove(s, x) ==
    LET i == IndexFrom(s, x, 1)
    IN  SubSeq(s, 1, i - 1) \o SubSeq(s, i + 1, Len(s))

\* list.insert(0, x)
InsertFront(s, x) == <<x>> \o s

(***************************************************************************)
(* _render_keep1cam                                                        *)
(***************************************************************************)
\* a variant that scans the children in their own order
CamerasOfForward(world_children) == SelectSeq(world_children, IsCamera)

\* cameras = [c for c in reversed(world_children) if freecadtype == "camera"]
CamerasOf(world_children) == SelectSeq(Reversed(world_children), IsCamera)

\* the body of the for loop, for the camera at position index (from 0)
Keep1CamStep(world_children, cam, index) ==
    LET removed == ListRemove(world_children, cam)
    IN  IF index = 0 THEN InsertFront(removed, cam) ELSE removed

\* the for loop over enumerate(cameras), from position index on; the result
\* is the list, or None when list.remove raises ValueError
RECURSIVE Keep1CamLoop(_, _, _)
Keep1CamLoop(world_children, cameras, index) ==
    IF index >= Len(cameras) THEN Some(world_children)
    ELSE IF IndexFrom(world_children, cameras[index + 1], 1) = 0 THEN None
    ELSE Keep1CamLoop(
             Keep1CamStep(world_children, cameras[index + 1], index),
             cameras, index + 1)

CameraDescriptor == [cameraIdx |-> 1, cameraToWorld |-> "identity"]

render_keep1cam(sg) ==
    LET wc == Keep1CamLoop(sg.world, CamerasOf(sg.world), 0)
    IN  IF wc = None THEN None
        ELSE Some([sg EXCEPT !.world = wc.some, !.camera = CameraDescriptor])

(***************************************************************************)
(* _render_mergelightgroups                                                *)
(***************************************************************************)
\* world_children.sort(key=lambda x: x["type"] == "LIGHTS"): a stable sort
\* on a boolean key, False first
SortLightsLast(world_children) ==
    SelectSeq(world_children, NotLights) \o SelectSeq(world_children, IsLights)

remaining_lightgroups(world_children) ==
    /\ world_children # << >>
    /\ world_children[Len(world_children)].type = "LIGHTS"

\* a variant with an if in place of the while: one group is popped
PopOneLightGroup(world_children, lights) ==
    IF remaining_lightgroups(world_children)
    THEN [world |-> SubSeq(world_children, 1, Len(world_children) - 1),
          lights |-> lights \o world_children[Len(world_children)].children]
    ELSE [world |-> world_children, lights |-> lights]

\* the while loop: pop the last group, lights += its children
RECURSIVE PopLightGroups(_, _)
PopLightGroups(world_children, lights) ==
    IF remaining_lightgroups(world_children)
    THEN PopLightGroups(
             SubSeq(world_children, 1, Len(world_children) - 1),
             lights \o world_children[Len(world_children)].children)
    ELSE [world |-> world_children, lights |-> lights]

render_mergelightgroups(sg) ==
    LET popped == PopLightGroups(SortLightsLast(sg.world), << >>)
    IN  [sg EXCEPT !.world = popped.world,
                   !.lightsManager = sg.lightsManager \o popped.lights]

(***************************************************************************)
(* render: output path and command line                                    *)
(***************************************************************************)
Lit(s) == [lit |-> s]
OutfileForOsp == [cache |-> "ospray_out", suffix |-> ""]

\* a variant with the two names exchanged
OutfileActualSwapped(batch) ==
    IF batch THEN [cache |-> "ospray_out", suffix |-> ".00000.png"]
    ELSE [cache |-> "ospray_out", suffix |-> ".Camera_1.00000.png"]

\* outfile_actual
OutfileActual(batch) ==
    IF ~batch THEN [cache |-> "ospray_out", suffix |-> ".00000.png"]
    ELSE [cache |-> "ospray_out", suffix |-> ".Camera_1.00000.png"]

OutPaths == {OutfileActual(TRUE), OutfileActual(FALSE)}

\* renderer paths the OspPath preference may hold, as character sequences
DQ == "dq"
SQ == "sq"
RPaths == { << >>, <<"o", "s", "p">>, <<DQ, "o", DQ>>, <<SQ, "o", SQ>>,
            <<DQ>> }

enclose_rpath(rpath) ==
    IF rpath = << >> THEN << >>
    ELSE IF rpath[1] = DQ /\ rpath[Len(rpath)] = DQ THEN rpath
    ELSE IF rpath[1] = SQ /\ rpath[Len(rpath)] = SQ THEN rpath
    ELSE <<DQ>> \o rpath \o <<DQ>>

\* the preference strings as pieces of the command: nothing when empty
\* (if prefix := params.GetString("Prefix", ""): prefix += " ")
PrefixPiece(s) == IF s = "" THEN << >> ELSE <<[prefix |-> s]>>
ParamsPiece(s) == IF s = "" THEN << >> ELSE <<[params |-> s]>>

BatchArgs(batch) ==
    IF batch THEN <<Lit("batch"), Lit("--camera"), Lit("1")>> ELSE << >>

ImageArgs(batch, output_file) ==
    IF output_file # ""
    THEN <<Lit("--image"), [path |-> OutfileForOsp]>>
         \o (IF ~batch THEN <<Lit("--saveImageOnExit")>> ELSE << >>)
    ELSE << >>

SppArgs(spp) ==
    IF spp # 0
    THEN <<Lit("--accumLimit"), [num |-> spp], Lit("--spp"), Lit("1")>>
    ELSE << >>

\* a variant that asks for the final-frame denoiser whatever spp is
DenoiseArgsAlwaysFinal(denoise, spp) ==
    IF denoise THEN <<Lit("--denoiser"), Lit("--denoiseFinalFrame")>>
    ELSE << >>

DenoiseArgs(denoise, spp) ==
    IF denoise
    THEN <<Lit("--denoiser")>>
         \o (IF spp # 0 THEN <<Lit("--denoiseFinalFrame")>> ELSE << >>)
    ELSE << >>

\* args, as render accumulates it
CmdArgs(a, osp_parameters) ==
    BatchArgs(a.batch)
    \o ParamsPiece(osp_parameters)
    \o <<Lit("--resolution"), [res |-> <<a.width, a.height>>]>>
    \o ImageArgs(a.batch, a.output_file)
    \o SppArgs(a.spp)
    \o DenoiseArgs(a.denoise, a.spp)

\* cmd = prefix + rpath + " " + args + " " + f'"{input_file}"'
Cmd(a, pref) ==
    PrefixPiece(pref.Prefix)
    \o <<[rpath |-> enclose_rpath(pref.OspPath)]>>
    \o CmdArgs(a, pref.OspParameters)
    \o <<[input |-> a.input_file]>>

\* a variant without the test of the renderer path
RenderReturnUnchecked(a, pref) ==
    [cmd |-> Some(Cmd(a, pref)), outfile |-> Some(OutfileActual(a.batch)),
     printed |-> << >>]

\* the tail of render, from the preferences on: (cmd, outfile_actual), or
\* (None, None) with an error printed
RenderReturn(a, pref) ==
    IF pref.OspPath = << >>
    THEN [cmd |-> None, outfile |-> None, printed |-> <<"Error">>]
    ELSE [cmd |-> Some(Cmd(a, pref)), outfile |-> Some(OutfileActual(a.batch)),
          printed |-> << >>]

(***************************************************************************)
(* Python values of the material helpers.  A value carries its type in t;  *)
(* None carries none.  Numbers are in units of 1/Unit.                     *)
(***************************************************************************)
Unit == 2

Flt(n) == [t |-> "float", n |-> n]
IntV(n) == [t |-> "int", n |-> n]
Str(x) == [t |-> "str", s |-> x]
Color(c) == [t |-> "RGB", lin |-> c]
Texture(f) == [t |-> "texture", file |-> f, scale |-> Unit, rotation |-> 0,
               translation_u |-> 0, translation_v |-> 0]

TypeOf(v) == IF "t" \in DOMAIN v THEN v.t ELSE "NoneType"
IsNumber(v) == TypeOf(v) \in {"float", "int"}

\* outcomes of a call
Return(v, printed) == [kind |-> "return", value |-> v, printed |-> printed]
Raise(exc, printed) == [kind |-> "raise", exc |-> exc, printed |-> printed]

\* an intermediate value, or the exception its computation raised
Ok(v) == [ok |-> TRUE, v |-> v]
Err(exc) == [ok |-> FALSE, exc |-> exc]

\* float(x)
ToFloat(x) ==
    CASE IsNumber(x) -> Ok(Flt(x.n))
      [] TypeOf(x) = "str" -> Err("ValueError")
      [] OTHER -> Err("TypeError")

\* f"{x:.8}": 8 significant digits for a float, the first 8 characters for a
\* str; an int refuses a precision, another object refuses the format
Format8(x) ==
    CASE TypeOf(x) = "float" -> Ok([text |-> "float", n |-> x.n])
      [] TypeOf(x) = "str" -> Ok([text |-> "str", s |-> x.s])
      [] TypeOf(x) = "int" -> Err("ValueError")
      [] OTHER -> Err("TypeError")

\* f"{x}" and str.format of a number: repr of the value
FormatPlain(x) ==
    CASE TypeOf(x) = "float" -> [text |-> "float", n |-> x.n]
      [] TypeOf(x) = "int" -> [text |-> "int", n |-> x.n]
      [] TypeOf(x) = "str" -> [text |-> "str", s |-> x.s]
      [] OTHER -> [text |-> "object", type |-> TypeOf(x)]

(***************************************************************************)
(* _FIELD_MAPPING                                                          *)
(***************************************************************************)
FIELD_MAPPING ==
    { <<"Diffuse", "color", Some("baseColor")>>,
      <<"Diffuse", "bump", None>>,
      <<"Diffuse", "displacement", None>>,
      <<"Substance_PBR", "basecolor", Some("baseColor")>>,
      <<"Substance_PBR", "bump", None>>,
      <<"Disney", "basecolor", Some("baseColor")>>,
      <<"Disney", "subsurface", Some("")>>,
      <<"Disney", "speculartint", Some("")>>,
      <<"Disney", "anisotropic", Some("anisotropy")>>,
      <<"Disney", "sheentint", Some("sheenTint")>>,
      <<"Disney", "clearcoat", Some("coat")>>,
      <<"Disney", "clearcoatgloss", Some("coatRoughness")>>,
      <<"Disney", "bump", None>>,
      <<"Disney", "displacement", None>>,
      <<"Glass", "color", Some("transmissionColor")>>,
      <<"Glass", "ior", Some("ior")>>,
      <<"Glass", "bump", None>>,
      <<"Glass", "displacement", None>>,
      <<"Carpaint", "basecolor", Some("baseColor")>>,
      <<"Mixed", "transparency", Some("transmission")>>,
      <<"Mixed", "diffuse", Some("")>>,
      <<"Mixed", "shader", Some("")>>,
      <<"Mixed", "glass", Some("")>>,
      <<"Mixed", "bump", None>>,
      <<"Mixed", "displacement", None>>,
      <<"glass", "color", Some("transmissionColor")>>,
      <<"diffuse", "color", Some("baseColor")>>,
      <<"Emission", "power", Some("intensity")>>,
      <<"Passthrough", "string", Some("")>>,
      <<"Passthrough", "renderer", Some("")>> }

\* dict.get with a default: the table entry of a pair, the property name
\* for a pair without entry
FieldLookup(shadertype, propname) ==
    IF \E e \in FIELD_MAPPING : e[1] = shadertype /\ e[2] = propname
    THEN (CHOOSE e \in FIELD_MAPPING :
              e[1] = shadertype /\ e[2] = propname)[3]
    ELSE Some(propname)

\* a variant that falls back on the property name for None as well
\* (_FIELD_MAPPING.get(...) or propname, tested on a non-empty name)
FieldOfNoneKept(shadertype, propname) ==
    IF FieldLookup(shadertype, propname) = None THEN Some(propname)
    ELSE FieldLookup(shadertype, propname)

\* a variant that excludes on an empty name as on None (if not field)
FieldOfEmptyExcluded(shadertype, propname) ==
    IF FieldLookup(shadertype, propname) = Some("") THEN None
    ELSE FieldLookup(shadertype, propname)

\* field := _FIELD_MAPPING.get((shadertype, propname), propname), as the
\* three helpers read it before their "is None" test
FieldOf(shadertype, propname) == FieldLookup(shadertype, propname)

\* a string is a sequence of lines; a line "field piece piece ..." holds the
\* field name and the pieces after it
Line(field, pieces) == [field |-> field, pieces |-> pieces]
OneLine(field, pieces) == <<Line(field, pieces)>>
EmptyString == << >>

Warning == <<"Warning">>
NoPrint == << >>

(***************************************************************************)
(* _write_value                                                            *)
(***************************************************************************)
\* shaderproperties without a "metallic" key
Absent == [t |-> "absent"]

\* if propname == "clearcoatgloss": val = 1 - val
ClearcoatAdjust(propname, val) ==
    IF propname # "clearcoatgloss" THEN Ok(val)
    ELSE IF IsNumber(val) THEN Ok([val EXCEPT !.n = Unit - val.n])
    ELSE Err("TypeError")

\* val = metallic if val <= 0.0 else val
SpecularReplace(val, metallic) ==
    IF ~IsNumber(val) THEN Err("TypeError")
    ELSE IF val.n <= 0 THEN Ok(metallic) ELSE Ok(val)

\* if propname == "specular": ... the test of the sibling "metallic"
SpecularAdjust(propname, val, metallic) ==
    IF propname # "specular" \/ metallic = Absent THEN Ok(val)
    ELSE IF TypeOf(metallic) = "texture" THEN SpecularReplace(val, metallic)
    ELSE LET f == ToFloat(metallic)
         IN  IF ~f.ok THEN Err(f.exc)
             ELSE IF f.v.n # 0 THEN SpecularReplace(val, metallic)
             ELSE Ok(val)

\* lcol = val.to_linear(); the first n components, each formatted with .8
FormatColor(field, val, n) ==
    IF TypeOf(val) # "RGB" THEN Err("AttributeError")
    ELSE IF Len(val.lin) < n THEN Err("IndexError")
    ELSE IF \E i \in 1..n : ~Format8(val.lin[i]).ok
    THEN Format8(val.lin[CHOOSE i \in 1..n : ~Format8(val.lin[i]).ok
                                  /\ \A j \in 1..(i - 1) : Format8(val.lin[j]).ok])
    ELSE Ok(OneLine(field, [i \in 1..n |-> Format8(val.lin[i]).v]))

\* a variant whose last branch yields the empty string instead of raising
FormatValueLenient(proptype, field, val) ==
    CASE proptype = "RGB" -> FormatColor(field, val, 3)
      [] proptype = "float" ->
            LET f == Format8(val)
            IN  IF f.ok THEN Ok(OneLine(field, <<f.v>>)) ELSE f
      [] proptype = "node" -> Ok(EmptyString)
      [] proptype = "RGBA" -> FormatColor(field, val, 4)
      [] proptype = "str" -> Ok(OneLine(field, <<FormatPlain(val)>>))
      [] OTHER -> Ok(EmptyString)

\* the snippets for values, by property type
FormatValue(proptype, field, val) ==
    CASE proptype = "RGB" -> FormatColor(field, val, 3)
      [] proptype = "float" ->
            LET f == Format8(val)
            IN  IF f.ok THEN Ok(OneLine(field, <<f.v>>)) ELSE f
      [] proptype = "node" -> Ok(EmptyString)
      [] proptype = "RGBA" -> FormatColor(field, val, 4)
      [] proptype = "str" -> Ok(OneLine(field, <<FormatPlain(val)>>))
      [] OTHER -> Err("NotImplementedError")

write_value(proptype, propname, shadertype, propvalue, metallic) ==
    LET field == FieldOf(shadertype, propname)
    IN  IF field = None THEN Return(EmptyString, Warning)
        ELSE LET v1 == ClearcoatAdjust(propname, propvalue)
             IN  IF ~v1.ok THEN Raise(v1.exc, NoPrint)
                 ELSE LET v2 == SpecularAdjust(propname, v1.v, metallic)
                      IN  IF ~v2.ok THEN Raise(v2.exc, NoPrint)
                          ELSE LET r == FormatValue(proptype, field.some, v2.v)
                               IN  IF r.ok THEN Return(r.v, NoPrint)
                                   ELSE Raise(r.exc, NoPrint)

(***************************************************************************)
(* _write_texref                                                           *)
(***************************************************************************)
Dummy(x) == [text |-> "dummy", s |-> x]

TexrefValue(proptype, propname, field) ==
    CASE proptype = "RGB" -> Ok(OneLine(field, <<Dummy("1.0"), Dummy("1.0"), Dummy("1.0")>>))
      [] proptype = "float" -> Ok(OneLine(field, <<Dummy("1.0")>>))
      [] proptype = "node" -> Ok(OneLine(field, <<Dummy("1.0")>>))
      [] proptype = "RGBA" ->
            Ok(OneLine(field, <<Dummy("1.0"), Dummy("1.0"), Dummy("1.0"), Dummy("1.0")>>))
      [] proptype = "texonly" ->
            Ok(OneLine(field, <<Dummy(IF propname = "normal" THEN "4.0" ELSE "1.0")>>))
      [] proptype = "texscalar" ->
            Ok(OneLine(field, <<[text |-> "factor",
                              s |-> IF propname = "normal" THEN "normal" ELSE "bump"]>>))
      [] OTHER -> Err("NotImplementedError")

write_texref(proptype, propname, shadertype) ==
    LET field == FieldOf(shadertype, propname)
    IN  IF field = None THEN Return(EmptyString, Warning)
        ELSE IF propname \in {"clearcoatgloss", "ior"}
        THEN Return(OneLine(field.some,
                         <<Dummy(IF propname = "ior" THEN "1.5" ELSE "1.0")>>),
                    NoPrint)
        ELSE LET r == TexrefValue(proptype, propname, field.some)
             IN  IF r.ok THEN Return(r.v, NoPrint) ELSE Raise(r.exc, NoPrint)

(***************************************************************************)
(* _write_texture                                                          *)
(***************************************************************************)
\* the list without "ior"
UnsupportedTexturesShort ==
    {"clearcoatgloss", "subsurface", "speculartint", "bump", "displacement"}

UnsupportedTextures ==
    {"clearcoatgloss", "ior", "subsurface", "speculartint", "bump",
     "displacement"}

MapLine(field, sub, pieces) == [map |-> field, sub |-> sub, pieces |-> pieces]

\* the five lines of a texture, joined by "\n"
TextureLines(field, tex) ==
    << [comment |-> "Texture", about |-> field],
       MapLine(field, "", <<[text |-> "path", s |-> tex.file]>>),
       MapLine(field, "rotation", <<FormatPlain(Flt(tex.rotation))>>),
       MapLine(field, "scale",
               <<FormatPlain(Flt(tex.scale)), FormatPlain(Flt(tex.scale))>>),
       MapLine(field, "translation",
               <<FormatPlain(Flt(tex.translation_u)),
                 FormatPlain(Flt(tex.translation_v))>>) >>

TexturePair(propname, tex) == [name |-> propname, tex |-> tex]

write_texture(proptype, propname, shadertype, propvalue) ==
    IF TypeOf(propvalue) # "texture" THEN Raise("AttributeError", NoPrint)
    ELSE LET field == FieldOf(shadertype, propname)
         IN  IF field = None
             THEN Return(TexturePair(propname, EmptyString), NoPrint)
             ELSE IF propname \in UnsupportedTextures
             THEN Return(TexturePair(propname, EmptyString), Warning)
             ELSE IF proptype \in {"RGB", "float", "texonly", "texscalar"}
             THEN Return(TexturePair(propname,
                                     TextureLines(field.some, propvalue)),
                         NoPrint)
             ELSE IF proptype = "node"
             THEN Return(TexturePair(propname, EmptyString), NoPrint)
             ELSE Raise("NotImplementedError", NoPrint)

(***************************************************************************)
(* _write_material and its templates.  A material string is a sequence of  *)
(* lines; matval[key], a string the bundle holds already formatted, is the *)
(* line Item(key).                                                         *)
(***************************************************************************)
Item(key) == [item |-> key, of |-> "matval"]
SubItem(key, sub) == [item |-> key, of |-> sub]
Text(x) == [line |-> x]

\* {matval["normal"] if matval.has_normal() else ""}
NormalLine(matval) == IF matval.has_normal THEN <<Item("normal")>> ELSE << >>

\* the try block of _write_material_fallback: the three components, or the
\* exception raised; its argument is read through .default_color
FallbackColor(matval) ==
    IF "default_color" \notin DOMAIN matval THEN Err("AttributeError")
    ELSE LET col == matval.default_color
         IN  IF TypeOf(col) # "RGB" THEN Err("AttributeError")
             ELSE IF Len(col.lin) < 3 THEN Err("IndexError")
             ELSE LET red == ToFloat(col.lin[1])
                      grn == ToFloat(col.lin[2])
                      blu == ToFloat(col.lin[3])
                  IN  IF ~red.ok THEN red
                      ELSE IF ~grn.ok THEN grn
                      ELSE IF ~blu.ok THEN blu
                      ELSE IF \A c \in {red.v, grn.v, blu.v} :
                                  0 <= c.n /\ c.n <= Unit
                      THEN Ok(<<red.v, grn.v, blu.v>>)
                      ELSE Err("AssertionError")

FallbackCaught ==
    {"AttributeError", "ValueError", "TypeError", "AssertionError"}

FallbackSnippet(rgb) ==
    << Text("# Fallback"), Text("type obj"),
       Line("kd", <<FormatPlain(rgb[1]), FormatPlain(rgb[2]),
                    FormatPlain(rgb[3])>>),
       Text("ns 2") >>

\* a variant whose except clause does not catch AttributeError
write_material_fallback_uncaught(name, matval) ==
    LET c == FallbackColor(matval)
    IN  IF c.ok THEN Ok(FallbackSnippet(c.v))
        ELSE IF c.exc \in FallbackCaught \ {"AttributeError"}
        THEN Ok(FallbackSnippet(<<IntV(Unit), IntV(Unit), IntV(Unit)>>))
        ELSE c

write_material_fallback(name, matval) ==
    LET c == FallbackColor(matval)
    IN  IF c.ok THEN Ok(FallbackSnippet(c.v))
        ELSE IF c.exc \in FallbackCaught
        THEN Ok(FallbackSnippet(<<IntV(Unit), IntV(Unit), IntV(Unit)>>))
        ELSE c

\* snippet.format(n=name, c=default_color.to_linear(), tex=texture) on the
\* user's passthrough string
write_material_passthrough(name, matval) ==
    IF TypeOf(matval.default_color) # "RGB" THEN Err("AttributeError")
    ELSE IF matval.string = "unknown_placeholder" THEN Err("KeyError")
    ELSE Ok(<<Text("# Passthrough"), Item("string")>>)

write_material_glass(name, matval) ==
    Ok(<<Text("# Glass"), Text("type principled"), Item("ior"), Item("color"),
         Text("transmission 1"), Text("specular 1"), Text("metallic 0"),
         Text("diffuse 0"), Text("opacity 1")>> \o NormalLine(matval))

write_material_disney(name, matval) ==
    Ok(<<Text("# Disney"), Text("type principled"), Item("basecolor"),
         Item("metallic"), Item("specular"), Item("roughness"),
         Item("anisotropic"), Item("sheen"), Item("sheentint"),
         Item("clearcoat"), Item("clearcoatgloss")>>
       \o NormalLine(matval) \o <<Text("ior 1.5"), Text("coatIor 1.5")>>)

write_material_pbr(name, matval) ==
    Ok(<<Text("# Pbr"), Text("type principled"), Item("basecolor"),
         Item("metallic"), Item("specular"), Item("roughness")>>
       \o NormalLine(matval))

write_material_diffuse(name, matval) ==
    Ok(<<Text("# Diffuse"), Text("type principled"), Item("color"),
         Text("metallic 0"), Text("specular 0"), Text("diffuse 1")>>
       \o NormalLine(matval))

\* assert isinstance(transparency, float)
write_material_mixed(name, matval) ==
    IF TypeOf(matval.transparency) # "float" THEN Err("AssertionError")
    ELSE Ok(<<Text("# Mixed"), Text("type principled"),
              SubItem("color", "diffuse"), SubItem("ior", "glass"),
              Line("transmission", <<FormatPlain(matval.transparency)>>),
              SubItem("color", "glass"),
              Line("opacity", <<FormatPlain(Flt(Unit - matval.transparency.n))>>),
              Text("specular 0.5")>>
            \o NormalLine(matval)
            \o <<[textures |-> "diffuse"], [textures |-> "glass"]>>)

write_material_carpaint(name, matval) ==
    Ok(<<Text("# Carpaint"), Text("type carPaint"), Item("basecolor")>>
       \o NormalLine(matval))

write_material_emission(name, matval) ==
    Ok(<<Text("# Emission"), Text("type luminous"), Item("color"),
         Item("power"), Text("transparency 0.0")>>)

MATERIALS ==
    {"Passthrough", "Glass", "Disney", "Diffuse", "Mixed", "Carpaint",
     "Substance_PBR", "Emission"}

\* material_function = MATERIALS[matval.shadertype], applied
material_function(name, matval) ==
    CASE matval.shadertype = "Passthrough" -> write_material_passthrough(name, matval)
      [] matval.shadertype = "Glass" -> write_material_glass(name, matval)
      [] matval.shadertype = "Disney" -> write_material_disney(name, matval)
      [] matval.shadertype = "Diffuse" -> write_material_diffuse(name, matval)
      [] matval.shadertype = "Mixed" -> write_material_mixed(name, matval)
      [] matval.shadertype = "Carpaint" -> write_material_carpaint(name, matval)
      [] matval.shadertype = "Substance_PBR" -> write_material_pbr(name, matval)
      [] matval.shadertype = "Emission" -> write_material_emission(name, matval)

write_material(name, matval) ==
    IF matval.shadertype \notin MATERIALS
    THEN LET r == write_material_fallback(name, matval.default_color)
         IN  IF r.ok THEN Return(r.v, Warning) ELSE Raise(r.exc, Warning)
    ELSE LET r == material_function(name, matval)
         IN  IF r.ok THEN Return(r.v \o <<[textures |-> "matval"]>>, NoPrint)
             ELSE Raise(r.exc, NoPrint)

(***************************************************************************)
(* The state machine of one render() call                                  *)
(***************************************************************************)
SceneGraphs ==
    {[world |-> w, lightsManager |-> m, camera |-> None] :
        w \in SeqsUpTo(Nodes, MaxChildren),
        m \in {<< >>, <<"m">>}}

Args ==
    [project : {"prj"}, prefix : {"env"}, batch : BOOLEAN,
     input_file : {"scene.sg"}, output_file : {"", "out.png"},
     width : {800}, height : {600}, spp : {0, 4}, denoise : BOOLEAN]

Prefs == [Prefix : {"", "nice"}, OspPath : RPaths,
          OspParameters : {"", "--extra"}]

InitRender ==
    /\ pc = "start"
    /\ arg \in Args
    /\ file \in SceneGraphs
    /\ scene_graph = None
    /\ existing \in SUBSET OutPaths
    /\ console = << >>
    /\ ret = None
    /\ orig = [world |-> file.world, lightsManager |-> file.lightsManager,
               camera |-> file.camera, existing |-> existing]

InitMat ==
    /\ call = None
    /\ result = None

InitWriters ==
    /\ mesh = None
    /\ objdir = None

Init == InitRender /\ InitMat /\ InitWriters

\* with open(input_file) as f: scene_graph = json.load(f)
Load ==
    /\ pc = "start"
    /\ scene_graph' = Some(file)
    /\ pc' = "loaded"
    /\ UNCHANGED <<arg, file, existing, console, ret, orig, call, result,
                   mesh, objdir>>

\* _render_keep1cam(scene_graph); a ValueError of list.remove leaves render
Keep1Cam ==
    /\ pc = "loaded"
    /\ LET sg == render_keep1cam(scene_graph.some)
       IN  IF sg = None
           THEN /\ pc' = "raised"
                /\ UNCHANGED scene_graph
           ELSE /\ pc' = "kept"
                /\ scene_graph' = sg
    /\ UNCHANGED <<arg, file, existing, console, ret, orig, call, result,
                   mesh, objdir>>

\* _render_mergelightgroups(scene_graph)
MergeLightGroups ==
    /\ pc = "kept"
    /\ scene_graph' = Some(render_mergelightgroups(scene_graph.some))
    /\ pc' = "merged"
    /\ UNCHANGED <<arg, file, existing, console, ret, orig, call, result,
                   mesh, objdir>>

\* with open(input_file, "w") as f: json.dump(scene_graph, f)
Dump ==
    /\ pc = "merged"
    /\ file' = scene_graph.some
    /\ pc' = "written"
    /\ UNCHANGED <<arg, scene_graph, existing, console, ret, orig,
                   call, result, mesh, objdir>>

\* os.remove(outfile_actual) with no except clause: FileNotFoundError
\* leaves render
RemoveStaleUncaught ==
    /\ pc = "written"
    /\ IF OutfileActual(arg.batch) \in existing
       THEN /\ existing' = existing \ {OutfileActual(arg.batch)}
            /\ pc' = "removed"
       ELSE /\ existing' = existing
            /\ pc' = "raised"
    /\ UNCHANGED <<arg, file, scene_graph, console, ret, orig, call, result,
                   mesh, objdir>>

\* try: os.remove(outfile_actual) / except FileNotFoundError: pass
RemoveStale ==
    /\ pc = "written"
    /\ IF OutfileActual(arg.batch) \in existing
       THEN existing' = existing \ {OutfileActual(arg.batch)}
       ELSE existing' = existing
    /\ pc' = "removed"
    /\ UNCHANGED <<arg, file, scene_graph, console, ret, orig, call, result,
                   mesh, objdir>>

\* the preferences are read, the command is built and render returns
BuildCommand ==
    /\ pc = "removed"
    /\ \E pref \in Prefs :
          LET r == RenderReturn(arg, pref)
          IN  /\ ret' = [cmd |-> r.cmd, outfile |-> r.outfile, pref |-> pref]
              /\ console' = console \o r.printed
    /\ pc' = "done"
    /\ UNCHANGED <<arg, file, scene_graph, existing, orig, call, result,
                   mesh, objdir>>

Next ==
    \/ Load
    \/ Keep1Cam
    \/ MergeLightGroups
    \/ Dump
    \/ RemoveStale
    \/ BuildCommand

Spec == Init /\ [][Next]_vars

(***************************************************************************)
(* The material helpers, called one after the other                        *)
(***************************************************************************)
ShaderTypes == MATERIALS \cup {"glass", "diffuse", "Toon", "Unknown"}

PropNames ==
    {"color", "bump", "displacement", "basecolor", "subsurface",
     "speculartint", "anisotropic", "sheentint", "sheen", "clearcoat",
     "clearcoatgloss", "ior", "transparency", "diffuse", "shader", "glass",
     "power", "string", "renderer", "specular", "metallic", "roughness",
     "normal"}

PropTypes ==
    {"RGB", "RGBA", "float", "str", "node", "texonly", "texscalar", "int"}

\* the values a property of a type holds
ValuesFor(proptype) ==
    CASE proptype = "RGB" ->
            {Color(<<Flt(0), Flt(1), Flt(Unit)>>),
             Color(<<Flt(Unit), Flt(Unit), Flt(Unit), Flt(Unit)>>)}
      [] proptype = "RGBA" -> {Color(<<Flt(0), Flt(1), Flt(Unit), Flt(1)>>)}
      [] proptype = "float" -> {Flt(0 - 1), Flt(0), Flt(1), Flt(Unit)}
      [] proptype = "str" -> {Str("text")}
      [] proptype = "node" -> {None}
      [] proptype = "int" -> {IntV(Unit)}
      [] OTHER -> {Texture("tex.png")}

Metallics == {Absent, Flt(0), Flt(1), Texture("metal.png")}

\* the default colors of a bundle: none, in range, out of range, not numbers
DefaultColors ==
    {None,
     Color(<<Flt(0), Flt(1), Flt(Unit)>>),
     Color(<<Flt(Unit), Flt(Unit), Flt(Unit)>>),
     Color(<<Flt(0 - 1), Flt(0), Flt(0)>>),
     Color(<<Flt(0), Flt(Unit + 1), Flt(0)>>),
     Color(<<Str("red"), Flt(0), Flt(0)>>)}

Transparencies == {Flt(0), Flt(1), Flt(Unit), IntV(0), IntV(Unit)}

Bundles ==
    {b \in [shadertype : MATERIALS \cup {"Toon", "Unknown"},
            default_color : DefaultColors, has_normal : BOOLEAN,
            transparency : Transparencies,
            string : {"plain", "unknown_placeholder"}] :
        /\ b.shadertype # "Mixed" => b.transparency = Flt(0)
        /\ b.shadertype # "Passthrough" => b.string = "plain"}

MatInit ==
    /\ pc = "idle"
    /\ arg = None
    /\ file = None
    /\ scene_graph = None
    /\ existing = {}
    /\ console = << >>
    /\ ret = None
    /\ orig = None
    /\ call = None
    /\ result = None
    /\ InitWriters

Called(fn) == "fn" \in DOMAIN call /\ call.fn = fn

WriteMaterial ==
    /\ pc = "idle"
    /\ pc' = "returned"
    /\ \E matval \in Bundles :
          /\ call' = [fn |-> "_write_material", name |-> "obj",
                      matval |-> matval]
          /\ result' = write_material("obj", matval)
    /\ console' = result'.printed
    /\ UNCHANGED helperFrame

WriteValue ==
    /\ pc = "idle"
    /\ pc' = "returned"
    /\ \E proptype \in PropTypes, propname \in PropNames,
          shadertype \in ShaderTypes, metallic \in Metallics :
          \E propvalue \in ValuesFor(proptype) :
              /\ call' = [fn |-> "_write_value", proptype |-> proptype,
                          propname |-> propname, shadertype |-> shadertype,
                          propvalue |-> propvalue, metallic |-> metallic]
              /\ result' = write_value(proptype, propname, shadertype,
                                       propvalue, metallic)
    /\ console' = result'.printed
    /\ UNCHANGED helperFrame

WriteTexref ==
    /\ pc = "idle"
    /\ pc' = "returned"
    /\ \E proptype \in PropTypes, propname \in PropNames,
          shadertype \in ShaderTypes :
          /\ call' = [fn |-> "_write_texref", proptype |-> proptype,
                      propname |-> propname, shadertype |-> shadertype]
          /\ result' = write_texref(proptype, propname, shadertype)
    /\ console' = result'.printed
    /\ UNCHANGED helperFrame

WriteTexture ==
    /\ pc = "idle"
    /\ pc' = "returned"
    /\ \E proptype \in PropTypes, propname \in PropNames,
          shadertype \in ShaderTypes :
          /\ call' = [fn |-> "_write_texture", proptype |-> proptype,
                      propname |-> propname, shadertype |-> shadertype,
                      propvalue |-> Texture("tex.png")]
          /\ result' = write_texture(proptype, propname, shadertype,
                                     Texture("tex.png"))
    /\ console' = result'.printed
    /\ UNCHANGED helperFrame

\* the caller takes the outcome; the next call starts from a clear console
TakeResult ==
    /\ pc = "returned"
    /\ pc' = "idle"
    /\ call' = None
    /\ result' = None
    /\ console' = << >>
    /\ UNCHANGED helperFrame

MatNext ==
    \/ TakeResult
    \/ WriteMaterial
    \/ WriteValue
    \/ WriteTexref
    \/ WriteTexture

SpecMat == MatInit /\ [][MatNext]_vars

(***************************************************************************)
(* write_mesh                                                              *)
(*                                                                         *)
(* A placement is a rotation and a base vector.  The rotations of the      *)
(* model are the quarter turns about the X axis, counted in turns of       *)
(* PLACEMENT's rotation, which sends (x, y, z) to (x, z, -y).              *)
(***************************************************************************)
MaxCalls == 3

RotX(v) == <<v[1], v[3], 0 - v[2]>>

RECURSIVE Rotate(_, _)
Rotate(turns, v) == IF turns = 0 THEN v ELSE Rotate(turns - 1, RotX(v))

\* the rows (1,0,0,0), (0,0,1,0), (0,-1,0,0), (0,0,0,1)
PLACEMENT == [rot |-> 1, base |-> <<0, 0, 0>>]

\* the product a * b of two placements: b is applied first
Multiply(a, b) ==
    LET r == Rotate(a.rot, b.base)
    IN  [rot  |-> (a.rot + b.rot) % 4,
         base |-> <<r[1] + a.base[1], r[2] + a.base[2], r[3] + a.base[3]>>]

\* transformation.apply_placement(placement, left): the transformation's own
\* placement is replaced by the product; nothing is returned
apply_placement(transformation, placement, left) ==
    [transformation EXCEPT
        !.placement = IF left THEN Multiply(placement, @)
                      ELSE Multiply(@, placement)]

get_translation(transformation) == transformation.placement.base
get_rotation_qtn(transformation) == transformation.placement.rot
get_scale_vector(transformation) ==
    <<transformation.scale, transformation.scale, transformation.scale>>

\* the three PARAMETER children of the TRANSFORM node of the snippet
Components(transformation) ==
    [translation |-> get_translation(transformation),
     rotation    |-> get_rotation_qtn(transformation),
     scale       |-> get_scale_vector(transformation)]

snippet_obj(name, transfo) ==
    [name |-> name, type |-> "IMPORTER", transform |-> Components(transfo)]

Bases == {<<0, 0, 0>>, <<1, 2, 3>>, <<0, 0 - 1, 2>>}

Transformations ==
    [placement : [rot : 0 .. 3, base : Bases], scale : {1, 2}]

\* material bundles handed to write_mesh: a table shader, the unknown
\* shader and a Mixed shader that _write_material_mixed rejects
MeshBundles ==
    {b \in Bundles :
        /\ b.default_color = Color(<<Flt(0), Flt(1), Flt(Unit)>>)
        /\ ~b.has_normal
        /\ b.shadertype \in {"Diffuse", "Unknown", "Mixed"}
        /\ b.transparency \in {Flt(0), IntV(0)}}

MeshInit ==
    /\ pc = "mesh"
    /\ arg = None
    /\ file = None
    /\ scene_graph = None
    /\ existing = {}
    /\ console = << >>
    /\ ret = None
    /\ orig = None
    /\ InitMat
    /\ objdir = None
    /\ \E t \in Transformations :
          mesh = [transformation |-> t, initial |-> t, mtlcontent |-> None,
                  emitted |-> << >>, calls |-> 0]

WriteMesh ==
    /\ pc = "mesh"
    /\ mesh.calls < MaxCalls
    /\ \E matval \in MeshBundles :
          LET mtl == write_material("obj", matval)
              transfo == apply_placement(mesh.transformation, PLACEMENT, TRUE)
              snippet == snippet_obj("obj", transfo)
          IN  /\ call' = [fn |-> "write_mesh", name |-> "obj",
                          matval |-> matval]
              /\ console' = mtl.printed
              /\ IF mtl.kind = "raise"
                 THEN /\ result' = mtl
                      /\ mesh' = [mesh EXCEPT !.calls = @ + 1]
                 ELSE /\ result' = Return(snippet, mtl.printed)
                      /\ mesh' = [mesh EXCEPT
                                    !.calls = @ + 1,
                                    !.mtlcontent = Some(mtl.value),
                                    !.transformation = transfo,
                                    !.emitted = Append(@, snippet)]
    /\ UNCHANGED <<pc, arg, file, scene_graph, existing, ret, orig, objdir>>

MeshNext == WriteMesh

SpecMesh == MeshInit /\ [][MeshNext]_vars

(***************************************************************************)
(* write_camera, write_arealight, write_imagelight                         *)
(*                                                                         *)
(* Numbers of the light computations are exact fractions [n, d] in lowest  *)
(* terms.  A file is a pair <<path, content>>; opening a path for writing  *)
(* replaces what was there.  Names are ASCII, so unicode_escape changes    *)
(* nothing.                                                                *)
(***************************************************************************)
RECURSIVE Gcd(_, _)
Gcd(a, b) == IF b = 0 THEN a ELSE Gcd(b, a % b)

Abs(a) == IF a < 0 THEN 0 - a ELSE a

\* n / d for d # 0
Frac(n, d) ==
    LET g == Gcd(Abs(n), Abs(d))
        s == IF d < 0 THEN 0 - 1 ELSE 1
    IN  [n |-> (s * n) \div g, d |-> (s * d) \div g]

\* Python's true division: ZeroDivisionError on a zero divisor
TrueDiv(a, b) ==
    IF b.n = 0 THEN Err("ZeroDivisionError")
    ELSE Ok(Frac(a.n * b.d, a.d * b.n))

Whole(i) == Frac(i, 1)

MagicNumber == 1000

project_directory == "proj"
object_directory == "proj/obj"

\* a basename that ignores the extension
new_object_file_path_noext(basename, extension) ==
    [abspath |-> object_directory \o "/" \o basename,
     relpath |-> "obj/" \o basename]

new_object_file_path(basename, extension) ==
    LET filename == basename \o "." \o extension
    IN  [abspath |-> object_directory \o "/" \o filename,
         relpath |-> "obj/" \o filename]

\* radiance = power / (size_u * size_v), without the division by 1000
radiance_unscaled(power, size_u, size_v) ==
    TrueDiv(Whole(power), Whole(size_u * size_v))

radiance(power, size_u, size_v) ==
    LET r == TrueDiv(Whole(power), Whole(size_u * size_v))
    IN  IF r.ok THEN TrueDiv(r.v, Whole(MagicNumber)) ELSE r

multVec(placement, v) ==
    LET r == Rotate(placement.rot, v)
    IN  <<r[1] + placement.base[1], r[2] + placement.base[2],
          r[3] + placement.base[3]>>

\* the gltf file of a camera and the fragment returned
write_camera(name, o) ==
    LET plc == Multiply(PLACEMENT, o.pos)
        aratio == TrueDiv(Whole(o.resolution[1]), Whole(o.resolution[2]))
        p == new_object_file_path(name, "gltf")
    IN  IF ~aratio.ok THEN [files |-> << >>, out |-> Raise(aratio.exc, NoPrint)]
        ELSE [files |-> <<
                 <<p.abspath,
                   [generator |-> "FreeCAD Render Workbench",
                    cameras |-> [name |-> name, type |-> "perspective",
                                 yfov |-> [radians |-> o.fov],
                                 aspectRatio |-> aratio.v],
                    translation |-> plc.base, rotation |-> plc.rot]>> >>,
              out |-> Return([name |-> name, type |-> "IMPORTER",
                              filename |-> p.relpath,
                              freecadtype |-> "camera"], NoPrint)]

\* the mtl file of an area light, then its obj file, and the fragment
write_arealight(name, o) ==
    LET rad == radiance(o.power, o.size_u, o.size_v)
        transparency == IF o.transparent THEN 1 ELSE 0
        m == new_object_file_path(name, "mtl")
        osp_pos == Multiply(PLACEMENT, o.pos)
        verts == <<multVec(osp_pos, <<0 - o.size_u, 0 - o.size_v, 0>>),
                   multVec(osp_pos, <<o.size_u, 0 - o.size_v, 0>>),
                   multVec(osp_pos, <<o.size_u, o.size_v, 0>>),
                   multVec(osp_pos, <<0 - o.size_u, o.size_v, 0>>)>>
        normal == multVec(osp_pos, <<0, 0, 1>>)
        p == new_object_file_path(name, "obj")
    IN  IF ~rad.ok THEN [files |-> << >>, out |-> Raise(rad.exc, NoPrint)]
        ELSE [files |-> <<
                 <<m.abspath,
                   [newmtl |-> "material", type |-> "luminous",
                    color |-> o.color, intensity |-> rad.v,
                    transparency |-> transparency]>>,
                 <<p.abspath,
                   [mtllib |-> name \o ".mtl", v |-> verts, vn |-> normal,
                    o |-> name, usemtl |-> "material"]>> >>,
              out |-> Return([name |-> name, type |-> "IMPORTER",
                              filename |-> p.relpath], NoPrint)]

\* the gltf file of an image light and the fragment returned
write_imagelight(name, o) ==
    LET p == new_object_file_path(name, "gltf")
    IN  [files |-> <<
            <<p.abspath,
              [generator |-> "FreeCAD Render Workbench",
               background_uri |-> [from |-> object_directory,
                                   to |-> o.image]]>> >>,
         out |-> Return([name |-> name, type |-> "IMPORTER",
                         filename |-> p.relpath], NoPrint)]

write_object(name, o) ==
    CASE o.kind = "camera" -> write_camera(name, o)
      [] o.kind = "arealight" -> write_arealight(name, o)
      [] o.kind = "imagelight" -> write_imagelight(name, o)

Upright == [rot |-> 0, base |-> <<0, 0, 0>>]

CameraObjects ==
    [kind : {"camera"}, pos : {Upright}, fov : {40, 60},
     resolution : {<<800, 600>>}]

ArealightObjects ==
    {o \in [kind : {"arealight"}, pos : {Upright}, color : {"white"},
            power : {1000, 3}, size_u : {0, 1, 2}, size_v : {1, 2},
            transparent : BOOLEAN] :
        /\ o.size_u = 0 => (o.power = 3 /\ o.size_v = 1 /\ ~o.transparent)
        /\ o.size_v = 2 => (o.size_u = 2 /\ o.transparent)}

ImagelightObjects == [kind : {"imagelight"}, image : {"sky.hdr", "room.hdr"}]

SceneObjects == CameraObjects \cup ArealightObjects \cup ImagelightObjects

\* object names; the scene gives each name at most one object
Names == {"a", "b", "a.mtl"}

Scenes ==
    {s \in [Names -> SceneObjects \cup {None}] : \E n \in Names : s[n] # None}

\* open(path, "w") followed by write(content)
WriteFile(files, f) == {g \in files : g[1] # f[1]} \cup {f}

FilesInit ==
    /\ pc = "files"
    /\ arg = None
    /\ file = None
    /\ scene_graph = None
    /\ existing = {}
    /\ console = << >>
    /\ ret = None
    /\ orig = None
    /\ InitMat
    /\ mesh = None
    /\ \E s \in Scenes :
          objdir = [scene |-> s, files |-> {},
                    written |-> [n \in Names |-> << >>],
                    returned |-> [n \in Names |-> None]]

\* the object directory after the part of a write call that runs up to and
\* including its next file write; after the last write the call returns
\* its fragment
AfterWrite(name) ==
    LET w == write_object(name, objdir.scene[name])
        k == Len(objdir.written[name]) + 1
    IN  IF w.out.kind = "raise"
        THEN [objdir EXCEPT !.returned[name] = Some(w.out)]
        ELSE [objdir EXCEPT
                !.files = WriteFile(@, w.files[k]),
                !.written[name] = Append(@, w.files[k][1]),
                !.returned[name] =
                    IF k = Len(w.files) THEN Some(w.out) ELSE None]

Pending(name, kind) ==
    /\ objdir.scene[name] # None
    /\ objdir.scene[name].kind = kind
    /\ objdir.returned[name] = None

writerFrame == <<pc, arg, file, scene_graph, existing, console, ret, orig,
                 call, result, mesh>>

WriteCamera ==
    /\ pc = "files"
    /\ \E name \in Names :
          /\ Pending(name, "camera")
          /\ objdir' = AfterWrite(name)
    /\ UNCHANGED writerFrame

WriteArealight ==
    /\ pc = "files"
    /\ \E name \in Names :
          /\ Pending(name, "arealight")
          /\ objdir' = AfterWrite(name)
    /\ UNCHANGED writerFrame

WriteImagelight ==
    /\ pc = "files"
    /\ \E name \in Names :
          /\ Pending(name, "imagelight")
          /\ objdir' = AfterWrite(name)
    /\ UNCHANGED writerFrame

FilesNext ==
    \/ WriteCamera
    \/ WriteArealight
    \/ WriteImagelight

SpecFiles == FilesInit /\ [][FilesNext]_vars

(***************************************************************************)
(* Properties of render()                                                  *)
(***************************************************************************)
Cameras(world_children) == SelectSeq(world_children, IsCamera)
HasCamera == Cameras(orig.world) # << >>
LastCamera == LET c == Cameras(orig.world) IN c[Len(c)]

\* the children of every LIGHTS node of a list, in list order
RECURSIVE LightChildren(_)
LightChildren(world_children) ==
    IF world_children = << >> THEN << >>
    ELSE (IF IsLights(Head(world_children))
          THEN Head(world_children).children ELSE << >>)
         \o LightChildren(Tail(world_children))

SeqBag(s) ==
    [x \in {s[i] : i \in DOMAIN s} |->
        Cardinality({i \in DOMAIN s : s[i] = x})]

\* C1: with at least one camera node among the world children, after
\* _render_keep1cam exactly one camera node remains, it is the first world
\* child, and camera.cameraIdx is 1.
C1_OneCameraFirst ==
    (pc = "kept" /\ HasCamera) =>
        LET sg == scene_graph.some
        IN  /\ Len(Cameras(sg.world)) = 1
            /\ IsCamera(sg.world[1])
            /\ sg.camera.cameraIdx = 1

\* C2: after _render_mergelightgroups no world child is a LIGHTS node, and
\* the children of lightsManager are its previous children followed by the
\* children of the LIGHTS nodes, each exactly once.
C2_LightGroupsMerged ==
    pc = "merged" =>
        LET sg == scene_graph.some
            n == Len(orig.lightsManager)
        IN  /\ SelectSeq(sg.world, IsLights) = << >>
            /\ Len(sg.lightsManager) >= n
            /\ SubSeq(sg.lightsManager, 1, n) = orig.lightsManager
            /\ SeqBag(SubSeq(sg.lightsManager, n + 1, Len(sg.lightsManager)))
                 = SeqBag(LightChildren(orig.world))

C2_Witness ==
    /\ pc = "merged"
    /\ Len(SelectSeq(orig.world, IsLights)) >= 2
    /\ LightsP \in {orig.world[i] : i \in DOMAIN orig.world}
    /\ LightsQ \in {orig.world[i] : i \in DOMAIN orig.world}
    /\ orig.lightsManager # << >>
    /\ Len(scene_graph.some.lightsManager) = 4

\* C3: the camera node _render_keep1cam keeps is the last camera of the
\* original child order; the cameras before it are gone.
C3_LastCameraKept ==
    (pc = "kept" /\ HasCamera) =>
        Cameras(scene_graph.some.world) = <<LastCamera>>

C3_Witness ==
    /\ pc = "kept"
    /\ Len(Cameras(orig.world)) >= 2
    /\ Cameras(orig.world)[1] # LastCamera
    /\ Cameras(scene_graph.some.world) = <<LastCamera>>

\* the output path the claims expect for a batch flag
ExpectedOutfile(batch) ==
    IF batch THEN [cache |-> "ospray_out", suffix |-> ".Camera_1.00000.png"]
    ELSE [cache |-> "ospray_out", suffix |-> ".00000.png"]

\* C4 as stated: whatever the preferences, the second value render returns
\* is <cache>/ospray_out.Camera_1.00000.png in batch mode and
\* <cache>/ospray_out.00000.png otherwise.
C4_OutfileAlways ==
    pc = "done" => ret.outfile = Some(ExpectedOutfile(arg.batch))

\* C4 amended: the second value is that path when the OspPath preference is
\* not empty, and None when it is empty.
C4_OutfileWhenConfigured ==
    pc = "done" =>
        IF ret.pref.OspPath = << >>
        THEN ret.outfile = None
        ELSE ret.outfile = Some(ExpectedOutfile(arg.batch))

C4_Witness ==
    /\ pc = "done"
    /\ arg.batch
    /\ ret.pref.OspPath # << >>
    /\ ret.outfile = Some(ExpectedOutfile(TRUE))

\* C5: with an empty OspPath render prints an error, does not raise and
\* returns None for the command; otherwise the command is a non-empty string.
C5_MissingPath ==
    /\ pc # "raised"
    /\ pc = "done" =>
          IF ret.pref.OspPath = << >>
          THEN /\ ret.cmd = None
               /\ console = <<"Error">>
          ELSE /\ ret.cmd # None
               /\ ret.cmd.some # << >>
               /\ console = << >>

C5_Witness ==
    /\ pc = "done"
    /\ ret.pref.OspPath = << >>
    /\ ret.cmd = None
    /\ console = <<"Error">>

\* the command line of the claim: each optional group under its condition
Opt(cond, pieces) == IF cond THEN pieces ELSE << >>

ExpectedCmdTail(a, pref) ==
    Opt(a.batch, <<Lit("batch"), Lit("--camera"), Lit("1")>>)
    \o Opt(pref.OspParameters # "", <<[params |-> pref.OspParameters]>>)
    \o <<Lit("--resolution"), [res |-> <<a.width, a.height>>]>>
    \o Opt(a.output_file # "",
           <<Lit("--image"), [path |-> [cache |-> "ospray_out", suffix |-> ""]]>>)
    \o Opt(a.output_file # "" /\ ~a.batch, <<Lit("--saveImageOnExit")>>)
    \o Opt(a.spp # 0,
           <<Lit("--accumLimit"), [num |-> a.spp], Lit("--spp"), Lit("1")>>)
    \o Opt(a.denoise, <<Lit("--denoiser")>>)
    \o Opt(a.denoise /\ a.spp # 0, <<Lit("--denoiseFinalFrame")>>)
    \o <<[input |-> a.input_file]>>

KnownShaderTypes ==
    {"Passthrough", "Glass", "Disney", "Diffuse", "Mixed", "Carpaint",
     "Substance_PBR", "Emission"}

UnknownShaderCall ==
    /\ Called("_write_material")
    /\ call.matval.shadertype \notin KnownShaderTypes

\* the kd line of a fallback material
IsFallback(material) ==
    /\ Len(material) = 4
    /\ material[1] = [line |-> "# Fallback"]
    /\ material[2] = [line |-> "type obj"]
    /\ material[3].field = "kd"
    /\ Len(material[3].pieces) = 3

\* C7: for a shader type outside MATERIALS and any default color,
\* _write_material does not raise, prints a warning and returns the fallback
\* template with the three kd components within [0,1].
C7_FallbackNeverRaises ==
    UnknownShaderCall =>
        /\ result.kind = "return"
        /\ console = <<"Warning">>
        /\ IsFallback(result.value)
        /\ \A i \in 1..3 :
              /\ result.value[3].pieces[i].n >= 0
              /\ result.value[3].pieces[i].n <= Unit

C7_Witness ==
    /\ UnknownShaderCall
    /\ call.matval.default_color = Color(<<Flt(0), Flt(Unit + 1), Flt(0)>>)
    /\ result.kind = "return"
    /\ IsFallback(result.value)

\* C8: for an unknown shader type and a default color whose linear
\* components are all within [0,1], the kd line of the returned fallback
\* carries these components.
C8_FallbackCarriesColor ==
    (/\ UnknownShaderCall
     /\ TypeOf(call.matval.default_color) = "RGB"
     /\ \A i \in 1..3 :
           /\ TypeOf(call.matval.default_color.lin[i]) = "float"
           /\ call.matval.default_color.lin[i].n \in 0..Unit)
    => /\ result.kind = "return"
       /\ IsFallback(result.value)
       /\ \A i \in 1..3 :
             result.value[3].pieces[i].n = call.matval.default_color.lin[i].n

\* the pairs _FIELD_MAPPING maps to None, and those it maps to ""
NonePairs ==
    {<<"Diffuse", "bump">>, <<"Diffuse", "displacement">>,
     <<"Substance_PBR", "bump">>, <<"Disney", "bump">>,
     <<"Disney", "displacement">>, <<"Glass", "bump">>,
     <<"Glass", "displacement">>, <<"Mixed", "bump">>,
     <<"Mixed", "displacement">>}

EmptyPairs ==
    {<<"Disney", "subsurface">>, <<"Disney", "speculartint">>,
     <<"Mixed", "diffuse">>, <<"Mixed", "shader">>, <<"Mixed", "glass">>,
     <<"Passthrough", "string">>, <<"Passthrough", "renderer">>}

CalledOn(fn, pairs) ==
    Called(fn) /\ <<call.shadertype, call.propname>> \in pairs

\* C9: for a pair mapped to None and any property type, _write_value and
\* _write_texref return the empty string and _write_texture returns an
\* empty texture body.
C9_NoneOmitted ==
    /\ CalledOn("_write_value", NonePairs) =>
          result.kind = "return" /\ result.value = << >>
    /\ CalledOn("_write_texref", NonePairs) =>
          result.kind = "return" /\ result.value = << >>
    /\ CalledOn("_write_texture", NonePairs) =>
          result.kind = "return" /\ result.value.tex = << >>

C9_Witness ==
    /\ CalledOn("_write_value", NonePairs)
    /\ call.proptype = "int"
    /\ result.kind = "return"
    /\ result.value = << >>
    /\ console = <<"Warning">>

\* the property types each helper supports
ValueTypes == {"RGB", "RGBA", "float", "str", "node"}
TexrefTypes == {"RGB", "RGBA", "float", "node", "texonly", "texscalar"}
TextureTypes == {"RGB", "float", "texonly", "texscalar", "node"}

\* C10 as stated: for a pair mapped to "" and a supported property type the
\* three helpers emit nothing, as for a pair mapped to None.
C10_EmptyOmitted ==
    /\ (CalledOn("_write_value", EmptyPairs) /\ call.proptype \in ValueTypes)
          => result.kind = "return" /\ result.value = << >>
    /\ (CalledOn("_write_texref", EmptyPairs) /\ call.proptype \in TexrefTypes)
          => result.kind = "return" /\ result.value = << >>
    /\ (CalledOn("_write_texture", EmptyPairs)
            /\ call.proptype \in TextureTypes)
          => result.kind = "return" /\ result.value.tex = << >>

\* C10 amended: for a pair mapped to "" the helpers go on with an empty
\* field name.  _write_value returns one line, the empty name and the value
\* (nothing only for type node); _write_texref returns one line, the empty
\* name and the dummy value; _write_texture returns an empty body only for
\* subsurface and speculartint (with a warning) and for type node, and the
\* texture directives with an empty name otherwise.
C10_EmptyFieldName ==
    /\ (CalledOn("_write_value", EmptyPairs) /\ call.proptype \in ValueTypes)
          => /\ result.kind = "return"
             /\ IF call.proptype = "node" THEN result.value = << >>
                ELSE /\ Len(result.value) = 1
                     /\ result.value[1].field = ""
                     /\ result.value[1].pieces # << >>
    /\ (CalledOn("_write_texref", EmptyPairs) /\ call.proptype \in TexrefTypes)
          => /\ result.kind = "return"
             /\ Len(result.value) = 1
             /\ result.value[1].field = ""
             /\ result.value[1].pieces # << >>
    /\ (CalledOn("_write_texture", EmptyPairs)
            /\ call.proptype \in TextureTypes)
          => /\ result.kind = "return"
             /\ IF call.propname \in {"subsurface", "speculartint"}
                THEN result.value.tex = << >> /\ console = <<"Warning">>
                ELSE IF call.proptype = "node" THEN result.value.tex = << >>
                ELSE /\ Len(result.value.tex) = 5
                     /\ \A i \in 2..5 : result.value.tex[i].map = ""

C10_Witness ==
    /\ CalledOn("_write_value", {<<"Disney", "subsurface">>})
    /\ call.proptype = "float"
    /\ call.propvalue = Flt(1)
    /\ result.kind = "return"
    /\ result.value = <<[field |-> "", pieces |-> <<[text |-> "float", n |-> 1]>>]>>


(***************************************************************************)
(* Properties of the write functions                                       *)
(***************************************************************************)
\* C11: however many times write_mesh is called on the same mesh object with
\* placement P, every call emits the translation, rotation and scale of
\* PLACEMENT * P, and the mesh's own placement after a call is P.
C11_ConversionOnce ==
    pc = "mesh" =>
        /\ \A i \in DOMAIN mesh.emitted :
              mesh.emitted[i].transform
                  = Components(apply_placement(mesh.initial, PLACEMENT, TRUE))
        /\ mesh.transformation = mesh.initial

FileAt(path) == CHOOSE f \in objdir.files : f[1] = path

\* area lights of the scene whose material file has been written
LitArealights ==
    {n \in Names : /\ objdir.scene[n] # None
                   /\ objdir.scene[n].kind = "arealight"
                   /\ objdir.written[n] # << >>}

\* C12: the intensity write_arealight writes into the luminous material is
\* power / (size_u * size_v * 1000) for non-zero sizes, which is 1 for
\* power 1000 and sizes 1; the transparency written is 1 when transparent
\* is true and 0 otherwise.
C12_Radiance ==
    pc = "files" =>
        \A n \in LitArealights :
            LET o == objdir.scene[n]
                mtl == FileAt(objdir.written[n][1])[2]
            IN  /\ o.size_u # 0 /\ o.size_v # 0
                /\ mtl.type = "luminous"
                /\ mtl.intensity.n * (o.size_u * o.size_v * 1000)
                       = o.power * mtl.intensity.d
                /\ (o.power = 1000 /\ o.size_u = 1 /\ o.size_v = 1)
                       => mtl.intensity = [n |-> 1, d |-> 1]
                /\ mtl.transparency = (IF o.transparent THEN 1 ELSE 0)

\* a transparent area light of power 1000 and sizes 1 has been written with
\* intensity 1, and one of power 3 and sizes 2 with intensity 3/4000
C12_Witness ==
    /\ pc = "files"
    /\ \E n \in LitArealights :
          /\ objdir.scene[n].power = 1000 /\ objdir.scene[n].size_u = 1
          /\ objdir.scene[n].transparent
          /\ FileAt(objdir.written[n][1])[2].intensity = [n |-> 1, d |-> 1]
          /\ FileAt(objdir.written[n][1])[2].transparency = 1
    /\ \E n \in LitArealights :
          /\ objdir.scene[n].power = 3 /\ objdir.scene[n].size_u = 2
          /\ FileAt(objdir.written[n][1])[2].intensity = [n |-> 3, d |-> 4000]

\* C13: for every material bundle, whatever its shader type and whatever
\* its transparency value, _write_material returns a material string and
\* never raises.
C13_DispatcherNeverRaises ==
    Called("_write_material") => result.kind = "return"

\* the file writes made so far, as <<name, position in the call>>
Writes ==
    {w \in Names \X (1 .. 2) : w[2] \in DOMAIN objdir.written[w[1]]}

\* C14: for objects with pairwise distinct names written into one object
\* directory, the paths written by write_camera, write_arealight and
\* write_imagelight are pairwise distinct, so in every interleaving each
\* file holds what its call wrote and each call returns the fragment it
\* returns when run alone.
C14_DistinctPaths ==
    pc = "files" =>
        /\ \A v \in Writes, w \in Writes :
              v # w => objdir.written[v[1]][v[2]] # objdir.written[w[1]][w[2]]
        /\ \A w \in Writes :
              LET alone == write_object(w[1], objdir.scene[w[1]])
              IN  /\ objdir.written[w[1]][w[2]] = alone.files[w[2]][1]
                  /\ alone.files[w[2]] \in objdir.files
        /\ \A n \in Names :
              objdir.returned[n] # None =>
                  objdir.returned[n]
                      = Some(write_object(n, objdir.scene[n]).out)
        /\ Cardinality(objdir.files) = Cardinality(Writes)

\* a camera named a.mtl, an area light named a and an image light named b
\* have all returned, and the four files are there
C14_Witness ==
    /\ pc = "files"
    /\ objdir.scene["a.mtl"] # None /\ objdir.scene["a.mtl"].kind = "camera"
    /\ objdir.scene["a"] # None /\ objdir.scene["a"].kind = "arealight"
    /\ objdir.scene["b"] # None /\ objdir.scene["b"].kind = "imagelight"
    /\ \A n \in Names : /\ objdir.returned[n] # None
                        /\ objdir.returned[n].some.kind = "return"
    /\ {f[1] : f \in objdir.files}
          = {"proj/obj/a.mtl.gltf", "proj/obj/a.mtl", "proj/obj/a.obj",
             "proj/obj/b.gltf"}

SpecularCall ==
    /\ Called("_write_value")
    /\ call.propname = "specular"
    /\ call.proptype = "float"

MetallicActive ==
    \/ TypeOf(call.metallic) = "texture"
    \/ IsNumber(call.metallic) /\ call.metallic.n # 0

\* the call returned one specular line that carries the number n
EmitsSpecular(n) ==
    /\ result.kind = "return"
    /\ Len(result.value) = 1
    /\ result.value[1].pieces = <<[text |-> "float", n |-> n]>>

\* C15: for the float property specular, when metallic is a texture or a
\* non-zero number the emitted specular line carries a non-zero number,
\* whatever the input specular; when metallic is absent or zero, or the
\* input specular is positive, the input specular is emitted unchanged.
C15_SpecularForced ==
    SpecularCall =>
        /\ MetallicActive => \E n \in (0 - Unit) .. Unit :
                                 n # 0 /\ EmitsSpecular(n)
        /\ (~MetallicActive \/ call.propvalue.n > 0)
              => EmitsSpecular(call.propvalue.n)

UnknownTypeCall ==
    /\ Called("_write_value")
    /\ call.proptype \notin {"RGB", "RGBA", "float", "str", "node"}

\* C16 as stated: for every property type outside RGB, RGBA, float, str and
\* node, and every (shadertype, propname) pair, _write_value raises and
\* returns no string.
C16_UnknownTypeAlwaysRaises ==
    UnknownTypeCall => result.kind = "raise"

\* C16: for every property type outside RGB, RGBA, float, str and node,
\* _write_value raises for every (shadertype, propname) pair that
\* _FIELD_MAPPING does not map to None; for a pair mapped to None it logs the
\* warning and returns the empty string, whatever the type.
C16_UnknownTypeRaises ==
    UnknownTypeCall =>
        IF <<call.shadertype, call.propname>> \in NonePairs
        THEN result = Return(<< >>, Warning)
        ELSE result.kind = "raise"

\* an int property of a pair that is not excluded ended in
\* NotImplementedError
C16_Witness ==
    /\ UnknownTypeCall
    /\ <<call.shadertype, call.propname>> \notin NonePairs
    /\ result = Raise("NotImplementedError", NoPrint)

UntexturableCall ==
    /\ Called("_write_texture")
    /\ call.propname \in {"clearcoatgloss", "ior", "subsurface",
                          "speculartint", "bump", "displacement"}
    /\ TypeOf(call.propvalue) = "texture"

\* the call returned the property name with an empty texture body
TextureDropped ==
    /\ result.kind = "return"
    /\ result.value = [name |-> call.propname, tex |-> << >>]

\* C17 as stated: for every shader type and each of clearcoatgloss, ior,
\* subsurface, speculartint, bump and displacement, a texture request to
\* _write_texture is dropped and a warning is logged for it.
C17_DroppedWithWarning ==
    UntexturableCall => (TextureDropped /\ result.printed = Warning)

\* C17: for every shader type and each of clearcoatgloss, ior, subsurface,
\* speculartint, bump and displacement, a texture request to _write_texture
\* is dropped; _write_texture logs a warning for it unless _FIELD_MAPPING
\* maps the (shadertype, propname) pair to None, in which case it logs
\* nothing.
C17_DroppedWarningUnlessNone ==
    UntexturableCall =>
        /\ TextureDropped
        /\ result.printed
              = (IF <<call.shadertype, call.propname>> \in NonePairs
                 THEN NoPrint ELSE Warning)

\* a texture for Disney::ior was dropped with a warning
C17_Witness ==
    /\ UntexturableCall
    /\ call.shadertype = "Disney" /\ call.propname = "ior"
    /\ TextureDropped
    /\ result.printed = Warning

\* C18: the post-processing is idempotent: applying _render_keep1cam then
\* _render_mergelightgroups to the graph they produced leaves the world
\* children, the lightsManager children and the camera descriptor unchanged.
C18_PostProcessIdempotent ==
    pc = "merged" =>
        LET sg == scene_graph.some
            kept == render_keep1cam(sg)
        IN  /\ kept # None
            /\ LET again == render_mergelightgroups(kept.some)
               IN  /\ again.world = sg.world
                   /\ again.lightsManager = sg.lightsManager
                   /\ again.camera = sg.camera

IsPlain(c) == ~IsCamera(c) /\ ~IsLights(c)

\* C19: after the two passes on a graph with at least one camera node, the
\* retained camera is at index 0 of the world children, and the world
\* children that are neither cameras nor LIGHTS groups keep their order.
C19_CameraStaysFirst ==
    (pc = "merged" /\ HasCamera) =>
        LET sg == scene_graph.some
        IN  /\ sg.world # << >>
            /\ IsCamera(sg.world[1])
            /\ SelectSeq(sg.world, IsPlain) = SelectSeq(orig.world, IsPlain)

\* the graph render read, after the two passes
PostProcessed ==
    render_mergelightgroups(
        render_keep1cam([world |-> orig.world,
                         lightsManager |-> orig.lightsManager,
                         camera |-> orig.camera]).some)

\* C20: once render is past the removal of the stale output, and so when it
\* returns a command or (None, None), the scene file holds the
\* post-processed graph and no file is at the expected output path; the
\* renderer path is examined only after that, and a stale file that is
\* absent raises nothing.
C20_RewrittenAndCleared ==
    /\ pc # "raised"
    /\ ret # None => pc = "done"
    /\ pc \in {"removed", "done"} =>
          /\ file = PostProcessed
          /\ ExpectedOutfile(arg.batch) \notin existing
          /\ existing = orig.existing \ {ExpectedOutfile(arg.batch)}

\* render returned (None, None) after it rewrote a graph that the passes
\* changed and removed a stale output file
C20_Witness ==
    /\ pc = "done"
    /\ ret.cmd = None /\ ret.outfile = None
    /\ ExpectedOutfile(arg.batch) \in orig.existing
    /\ ExpectedOutfile(arg.batch) \notin existing
    /\ file = PostProcessed
    /\ file.world # orig.world

====
